---------------------------- MODULE Spec2Model ----------------------------
(***************************************************************************)
(* A model of the WebScraper of src/utils/web_scraper.py: the HTTP fetch   *)
(* with its retry loop (_make_request), and the lookup pipeline            *)
(* (scrape_company_info / scrape_prospect_info) with keyword generation,   *)
(* search, URL deduplication, relevance selection, page fetch and          *)
(* extraction.                                                             *)
(*                                                                         *)
(* The specifications share the variables:                                 *)
(*   FetchSpec   one call of _make_request, one HTTP request per step;     *)
(*   FetchLiveSpec  the same, every request returning or raising;          *)
(*   Spec        one whole lookup, one external call per step;             *)
(*   PoolSpec    keyword generation and the searches of a lookup;          *)
(*   SelectSpec  relevance selection and the page fetches of a lookup;     *)
(*   ExtractSpec the extraction call of a lookup;                          *)
(*   MergeSpec   the extraction merge loop applied to an arbitrary record. *)
(*   SearchSpec  one call of _search_google;                               *)
(*   CleanSpec   one call of _extract_raw_content, the text in characters; *)
(*   CorpusSpec  the fetch loop and the join of the texts into a corpus;   *)
(*   AgentSpec   one agent request: validation, the lookup, the response;  *)
(*   SuccessiveSpec  lookups made one after another on one scraper.        *)
(***************************************************************************)
EXTENDS Integers, Sequences, FiniteSets, TLC

VARIABLES
    \* ---- _make_request ----
    fpc,        \* "try": top of a loop iteration; "ssl": inside the SSLError
                \* handler, before its request; "done": the call has ended
    attempt,    \* the loop variable `attempt` (0-based)
    ftrace,     \* history: the requests issued and the sleeps taken, in order
    fret,       \* "pending", "None", "R200", or "raised" (an exception left the call)
    \* ---- the lookup ----
    pc,         \* position in scrape_company_info / scrape_prospect_info
    cfg,        \* [kind, name, hint, model, creds]: arguments and configuration
    keywords,   \* keywords
    kw,         \* index of the next keyword to search
    hitlog,     \* history: every hit the searches returned, in order
    all_urls,   \* all_urls
    seen_urls,  \* seen_urls
    selin,      \* history: the list handed to the selector
    selresp,    \* history: the selector model's response
    relevant_urls, \* relevant_urls
    fi,         \* index of the next relevant url to fetch
    fetched,    \* history: the urls fetched, in order
    all_content,\* all_content
    exresp,     \* history: the extraction model's response
    before,     \* history: the record as it was before the extraction merge
    data,       \* company_data / prospect_data
    raised,     \* history: the stages in which an exception was raised
    calls,      \* history: the calls of the stages, in order
    ret,        \* "pending", "returned", "raised"
    \* ---- _search_google ----
    senv,       \* [key, cse]: whether GOOGLE_API_KEY / GOOGLE_SEARCH_ENGINE_ID are set
    sreqs,      \* history: the HTTP requests the call issued, with their outcome
    sres,       \* [state, hits]: "idle", "pending", "raised" or "returned", and
                \* the list returned
    \* ---- _extract_raw_content ----
    cpage,      \* the page: the lengths of the chunks of its text, in order
    cout,       \* [state, fetch, text]: "idle", "pending" or "returned", what
                \* the fetch of the page gave, and the text returned
    ccontent,   \* all_content, with the texts in characters
    corpus,     \* [state, text]: "idle", "pending" or "joined", and combined_content
    \* ---- CompanyResearchAgent.execute / ProspectResearchAgent.execute ----
    input,      \* input_data
    response,   \* [state, success, data, error]: "idle", "pending" or
                \* "returned", and the AgentResponse returned
    session,    \* history: the calls of scraper.initialize() and
                \* scraper.close() made by execute, in order
    \* ---- the WebScraper object ----
    lookups     \* the lookups this scraper has completed before the current one

fvars == <<fpc, attempt, ftrace, fret>>
lvars == <<pc, cfg, keywords, kw, hitlog, all_urls, seen_urls, selin,
           selresp, relevant_urls, fi, fetched, all_content, exresp, before,
           data, raised, calls, ret>>
svars == <<senv, sreqs, sres>>
cvars == <<cpage, cout, ccontent, corpus>>
avars == <<input, response, session>>
ovars == <<lookups>>
vars == <<fvars, lvars, svars, cvars, avars, ovars>>

None == "None"

(***************************************************************************)
(* _make_request (web_scraper.py 61-127)                                   *)
(***************************************************************************)

Mut_max_retries == 3 + 1
max_retries == 3

Mut_base_delay == 2 + 1
base_delay == 2

\* What one requests.get can do: answer with a status, or raise.
\* SSLError is a RequestException; "RequestException" stands for the others
\* (Timeout, ConnectionError); "Exception" for anything that is not one.
Statuses == {200, 204, 404, 429, 500, 502}
Excs == {"SSLError", "RequestException", "Exception"}
Outcomes == [status : Statuses, exc : {"none"}] \cup [status : {0}, exc : Excs]

ReqEv(verify, o) ==
    [ev |-> "request", verify |-> verify, attempt |-> attempt,
     status |-> o.status, exc |-> o.exc, secs |-> 0]
SleepEv(secs) ==
    [ev |-> "sleep", verify |-> TRUE, attempt |-> attempt,
     status |-> 0, exc |-> "none", secs |-> secs]

\* delay = base_delay * (2 ** attempt)
Mut_Backoff(a) == base_delay * (a + 1)
Backoff(a) == base_delay * (2 ^ a)

\* except Exception as e: ... return None   (the outermost handler)
Mut_OuterExcept == "raised"
OuterExcept == "None"

\* if attempt < max_retries - 1:   (the RequestException handler, 118)
Mut_RetriesLeft(a) == TRUE
RetriesLeft(a) == a < max_retries - 1

\* The end of a loop iteration that neither returned nor raised: the next
\* iteration, or, after the last one, the `return None` that follows the loop.
NextIteration(tr) ==
    /\ ftrace' = tr
    /\ attempt' = attempt + 1
    /\ IF attempt + 1 < max_retries
         THEN fpc' = "try" /\ fret' = fret
         ELSE fpc' = "done" /\ fret' = "None"

Return(tr, r) ==
    /\ ftrace' = tr
    /\ fpc' = "done"
    /\ fret' = r
    /\ attempt' = attempt

\* requests.get(url, verify=True) and the branches on its outcome.
TryRequest(o) ==
    /\ fpc = "try"
    /\ attempt < max_retries
    /\ LET tr == Append(ftrace, ReqEv(TRUE, o)) IN
       CASE o.exc = "none" /\ o.status = 200 -> Return(tr, "R200")
         [] o.exc = "none" /\ o.status \in {429, 502} ->
                NextIteration(Append(tr, SleepEv(Backoff(attempt))))
         [] o.exc = "none" /\ o.status \notin {200, 429, 502} -> Return(tr, "None")
         [] o.exc = "SSLError" ->
                ftrace' = tr /\ fpc' = "ssl" /\ UNCHANGED <<attempt, fret>>
         [] o.exc = "RequestException" ->
                IF RetriesLeft(attempt)
                  THEN NextIteration(Append(tr, SleepEv(Backoff(attempt))))
                  ELSE Return(tr, OuterExcept)
         [] o.exc = "Exception" -> Return(tr, OuterExcept)
    /\ UNCHANGED <<lvars, svars, cvars, avars, ovars>>

\* The request of the SSLError handler, requests.get(url, verify=False).
\* An exception raised here is inside an except clause: the sibling clauses
\* do not see it and it reaches the outermost handler.
FallbackRequest(o) ==
    /\ fpc = "ssl"
    /\ LET tr == Append(ftrace, ReqEv(FALSE, o)) IN
       CASE o.exc = "none" /\ o.status = 200 -> Return(tr, "R200")
         [] o.exc = "none" /\ o.status # 200 -> NextIteration(tr)
         [] o.exc # "none" -> Return(tr, OuterExcept)
    /\ UNCHANGED <<lvars, svars, cvars, avars, ovars>>

(***************************************************************************)
(* Model text.  A model response is a record: `fenced` says the text is    *)
(* wrapped in ```json ... ``` markers, `json` says what the text inside    *)
(* is: "invalid" (not JSON), "array", "object" (a non-empty JSON object).  *)
(* `verdicts` is the array's elements, `info` the object's members,        *)
(* `lines` the lines of a text that is not JSON.                           *)
(***************************************************************************)
Text(fenced, json, verdicts, info, lines) ==
    [kind |-> "text", fenced |-> fenced, json |-> json,
     verdicts |-> verdicts, info |-> info, lines |-> lines]
Raise == [kind |-> "raise", fenced |-> FALSE, json |-> "invalid",
          verdicts |-> <<>>, info |-> <<>>, lines |-> <<>>]
\* the value of a response variable before the call is made
NoResp == [kind |-> "none", fenced |-> FALSE, json |-> "invalid",
           verdicts |-> <<>>, info |-> <<>>, lines |-> <<>>]

\* The lookup's variables before anything has run.
Fresh ==
    /\ keywords = <<>> /\ kw = 0 /\ hitlog = <<>>
    /\ all_urls = <<>> /\ seen_urls = {} /\ selin = <<>> /\ selresp = NoResp
    /\ relevant_urls = <<>> /\ fi = 0 /\ fetched = <<>>
    /\ all_content = <<>> /\ exresp = NoResp /\ raised = {}
    /\ calls = <<>> /\ ret = "pending"

LookupIdle ==
    /\ pc = "idle" /\ cfg = <<>> /\ data = <<>> /\ before = <<>> /\ Fresh

\* response_text.replace('```json', '').replace('```', '').strip()
Mut_StripFences(t) == t
StripFences(t) == [t EXCEPT !.fenced = FALSE]

\* json.loads: raises JSONDecodeError on fence markers and on non-JSON text.
JsonParses(t) == ~t.fenced /\ t.json # "invalid"

\* Python truthiness of a JSON value (None, "", [], {}, false, 0 are falsy).
Falsy == {None, "", "[]", "{}", "false", "0"}
Truthy(v) == v \notin Falsy

\* d[k] = v on a dict: the key is added when it is not there.
SetKey(d, k, v) == (k :> v) @@ d

(***************************************************************************)
(* _select_relevant_urls (web_scraper.py 302-435)                          *)
(***************************************************************************)

\* next((url for url in urls if url['url'] == selected['url']), None), as
\* an index into urls; 0 when no candidate matches.
Mut_MatchingUrl(urls, u) == IF urls # <<>> THEN 1 ELSE 0
MatchingUrl(urls, u) ==
    IF \E i \in 1..Len(urls) : urls[i]["url"] = u
      THEN CHOOSE i \in 1..Len(urls) :
             /\ urls[i]["url"] = u
             /\ \A j \in 1..(i - 1) : urls[j]["url"] # u
      ELSE 0

\* The five assignments of lines 407-411, in order: <<key written on the
\* candidate, key read from the verdict>>.
Copied == << <<"relevance_score", "relevance_score">>,
             <<"relevance_reason", "reason">>,
             <<"content_type", "content_type">>,
             <<"key_factors", "key_factors">>,
             <<"is_relevant", "is_relevant">> >>

\* The assignments from the n-th on, applied to candidate c until a key is
\* missing from the verdict (KeyError).
RECURSIVE Annotate(_, _, _)
Annotate(c, v, n) ==
    IF n > Len(Copied) THEN [c |-> c, exc |-> FALSE]
    ELSE IF Copied[n][2] \notin DOMAIN v THEN [c |-> c, exc |-> TRUE]
    ELSE Annotate(SetKey(c, Copied[n][1], v[Copied[n][2]]), v, n + 1)

\* The loop of lines 404-412 from the n-th verdict on.  The candidates are
\* dicts shared between urls and relevant_urls: `urls` is the input list as
\* mutated so far, `refs` the indices appended to relevant_urls.
RECURSIVE ApplyVerdicts(_, _, _, _)
ApplyVerdicts(urls, refs, vs, n) ==
    IF n > Len(vs) THEN [urls |-> urls, refs |-> refs, exc |-> FALSE]
    ELSE IF "url" \notin DOMAIN vs[n] THEN [urls |-> urls, refs |-> refs, exc |-> TRUE]
    ELSE LET i == MatchingUrl(urls, vs[n]["url"]) IN
         IF i = 0 THEN ApplyVerdicts(urls, refs, vs, n + 1)
         ELSE LET a == Annotate(urls[i], vs[n], 1)
                  us == [urls EXCEPT ![i] = a.c] IN
              IF a.exc THEN [urls |-> us, refs |-> refs, exc |-> TRUE]
              ELSE ApplyVerdicts(us, Append(refs, i), vs, n + 1)

\* relevant_urls = [url for url in relevant_urls if url['is_relevant']]
Mut_IsRelevantRef(urls, i) == TRUE
IsRelevantRef(urls, i) == Truthy(urls[i]["is_relevant"])
RECURSIVE FilterRelevant(_, _, _)
FilterRelevant(urls, refs, n) ==
    IF n > Len(refs) THEN <<>>
    ELSE (IF IsRelevantRef(urls, refs[n]) THEN <<urls[refs[n]]>> ELSE <<>>)
         \o FilterRelevant(urls, refs, n + 1)

\* The logging loop over the filtered list (420-425): ', '.join(
\* url['key_factors']) raises TypeError when key_factors is not a list of
\* strings, and the call falls back like on any other exception.
Joinable(kf) == kf # None
LoggingRaises(out) == \E i \in 1..Len(out) : ~Joinable(out[i]["key_factors"])

\* The whole call: [urls: the input list after the call, out: the list
\* returned, failed: whether it returned through a fallback].  `model` says
\* whether self.gemini_model is set; without it generate_content raises.
Mut_SelectRelevantUrls(urls, model, resp) ==
    IF ~model \/ resp.kind = "raise"
      THEN [urls |-> urls, out |-> <<>>, failed |-> TRUE]
    ELSE IF ~JsonParses(StripFences(resp))
      THEN [urls |-> urls, out |-> <<>>, failed |-> TRUE]
    ELSE IF resp.json # "array"
      THEN [urls |-> urls, out |-> urls, failed |-> TRUE]
    ELSE LET r == ApplyVerdicts(urls, <<>>, resp.verdicts, 1) IN
         IF r.exc THEN [urls |-> r.urls, out |-> r.urls, failed |-> TRUE]
         ELSE LET out == FilterRelevant(r.urls, r.refs, 1) IN
              IF LoggingRaises(out)
                THEN [urls |-> r.urls, out |-> r.urls, failed |-> TRUE]
                ELSE [urls |-> r.urls, out |-> out, failed |-> FALSE]
SelectRelevantUrls(urls, model, resp) ==
    IF ~model \/ resp.kind = "raise"
      THEN [urls |-> urls, out |-> urls, failed |-> TRUE]
    ELSE IF ~JsonParses(StripFences(resp))
      THEN [urls |-> urls, out |-> urls, failed |-> TRUE]
    ELSE IF resp.json # "array"
      THEN [urls |-> urls, out |-> urls, failed |-> TRUE]
    ELSE LET r == ApplyVerdicts(urls, <<>>, resp.verdicts, 1) IN
         IF r.exc THEN [urls |-> r.urls, out |-> r.urls, failed |-> TRUE]
         ELSE LET out == FilterRelevant(r.urls, r.refs, 1) IN
              IF LoggingRaises(out)
                THEN [urls |-> r.urls, out |-> r.urls, failed |-> TRUE]
                ELSE [urls |-> r.urls, out |-> out, failed |-> FALSE]

(***************************************************************************)
(* The pieces of a lookup                                                  *)
(***************************************************************************)

\* company_data (442-452) / prospect_data (651-659) as first built.
Placeholder(c) ==
    IF c.kind = "company"
      THEN [name |-> c.name, description |-> None, industry |-> None,
            headquarters |-> None, founded |-> None, size |-> None,
            ceo |-> None, website |-> None, executive_summary |-> None]
      ELSE [name |-> c.name, title |-> None, company |-> c.hint,
            location |-> None, experience |-> None, education |-> None,
            linkedin_url |-> None]

\* _generate_search_keywords (135-158): [query] without a model or when the
\* call raises; else the stripped non-blank lines of the response.
NonBlank(line) == line # ""
GenerateSearchKeywords(query, model, resp) ==
    IF ~model \/ resp.kind = "raise" THEN <<query>>
    ELSE SelectSeq(resp.lines, NonBlank)

\* _search_google (160-229): [] without credentials, on an exception and on
\* a status other than 200; else one hit per item of the answer.  The title
\* of a hit tells the hits apart: <<keyword index, position>>.
\* dict.get(key, default) (197-216)
Mut_Get(d, key, default) == IF key \in DOMAIN d THEN d[key] ELSE None
Get(d, key, default) == IF key \in DOMAIN d THEN d[key] ELSE default

\* pagemap.get(g, [{}])[0] if pagemap.get(g) else {}   (198-200): the first
\* entry of a group of the item's pagemap, {} when the group is absent or []
EmptyDict == <<>>
FirstOf(group) == IF group = <<>> THEN EmptyDict ELSE group[1]

\* The twelve sub-fields of 'metadata' and where each is read from (204-217)
MetaSource ==
    [description         |-> <<"metatags", "og:description">>,
     type                |-> <<"metatags", "og:type">>,
     site_name           |-> <<"metatags", "og:site_name">>,
     published_time      |-> <<"metatags", "article:published_time">>,
     modified_time       |-> <<"metatags", "article:modified_time">>,
     author              |-> <<"metatags", "article:author">>,
     section             |-> <<"metatags", "article:section">>,
     organization_name   |-> <<"organization", "name">>,
     organization_url    |-> <<"organization", "url">>,
     person_name         |-> <<"person", "name">>,
     person_job_title    |-> <<"person", "jobtitle">>,
     person_affiliation  |-> <<"person", "affiliation">>]
Metadata(pagemap) ==
    [f \in DOMAIN MetaSource |->
        Get(FirstOf(pagemap[MetaSource[f][1]]), MetaSource[f][2], "")]

\* An item without a pagemap: item.get('pagemap', {})   (197)
NoPagemap == [dict |-> TRUE, metatags |-> <<>>, organization |-> <<>>,
              person |-> <<>>]

Hit(k, p, u, pagemap) ==
    [url |-> u, title |-> <<k, p>>, source |-> "google",
     metadata |-> Metadata(pagemap)]

\* pagemap.get raises when the item's 'pagemap' is not an object; the handler
\* at 227-229 then returns [] for the whole search
ItemsRaise(o) == \E p \in 1..Len(o.pagemaps) : ~o.pagemaps[p].dict
Mut_SearchGoogle(k, creds, o) ==
    IF o.kind # "ok" \/ ItemsRaise(o) THEN <<>>
    ELSE [p \in 1..Len(o.urls) |-> Hit(k, p, o.urls[p], o.pagemaps[p])]
SearchGoogle(k, creds, o) ==
    IF ~creds \/ o.kind # "ok" \/ ItemsRaise(o) THEN <<>>
    ELSE [p \in 1..Len(o.urls) |-> Hit(k, p, o.urls[p], o.pagemaps[p])]

\* if not api_key or not search_engine_id: return []   (169-171)
Mut_HasCredentials(env) == env.key
HasCredentials(env) == env.key /\ env.cse

\* 'num': 5 among the parameters of the request (180)
num == 5

\* for keyword in keywords: search_query = f"{keyword} company information"
\* (466-467; "profile information" for a prospect, 675-676): what the k-th
\* search asks for, as <<keyword, suffix>>
QuerySuffix == [company |-> " company information",
                prospect |-> " profile information"]
Mut_SearchQuery(kind, kws, k) == <<kws[1], QuerySuffix[kind]>>
SearchQuery(kind, kws, k) == <<kws[k], QuerySuffix[kind]>>

\* The deduplication loop (470-473, 679-682) from the n-th result on.
Mut_Dedup(urls, seen, results, n) ==
    [all_urls |-> urls \o results,
     seen_urls |-> seen \cup {results[i]["url"] : i \in 1..Len(results)}]
RECURSIVE Dedup(_, _, _, _)
Dedup(urls, seen, results, n) ==
    IF n > Len(results) THEN [all_urls |-> urls, seen_urls |-> seen]
    ELSE IF results[n]["url"] \notin seen
      THEN Dedup(Append(urls, results[n]), seen \cup {results[n]["url"]},
                 results, n + 1)
      ELSE Dedup(urls, seen, results, n + 1)

\* _extract_raw_content (259-300): "" when the fetch fails or anything
\* raises, else the cleaned text of the page.
PageText == [u1 |-> "text of u1", u2 |-> "text of u2"]
Mut_ExtractRawContent(u, o) == PageText[u]
ExtractRawContent(u, o) == IF o = "text" THEN PageText[u] ELSE ""

\* for key, value in info.items(): if value: data[key] = value
\* (547-549, 728-730)
Mut_MergeInfo(d, info) ==
    [k \in DOMAIN d \cup DOMAIN info |-> IF k \in DOMAIN info THEN info[k] ELSE d[k]]
MergeInfo(d, info) ==
    LET set == {k \in DOMAIN info : Truthy(info[k])} IN
    [k \in DOMAIN d \cup set |-> IF k \in set THEN info[k] ELSE d[k]]

\* The heuristic scan of the company path (555-638).  A line of the raw text
\* is [label, colon, value]: `label` is the label the line holds (one of
\* Labels, in lower case, or "other"), `colon` says a colon follows it
\* before the end of the line, `value` is the stripped text after that
\* colon.  Each label is looked up at its first occurrence; split(":", 1)[1]
\* raises IndexError when no colon follows, and the scan is abandoned
\* before any field is written (637-638).
Labels == <<"description", "industry", "location", "founding", "size",
            "ceo", "website">>
FieldOf == [description |-> "description", industry |-> "industry",
            location |-> "headquarters", founding |-> "founded",
            size |-> "size", ceo |-> "ceo", website |-> "website"]
FirstLine(lines, l) ==
    IF \E i \in 1..Len(lines) : lines[i].label = l
      THEN CHOOSE i \in 1..Len(lines) :
             lines[i].label = l /\ \A j \in 1..(i - 1) : lines[j].label # l
      ELSE 0
RECURSIVE HeuristicWrite(_, _, _)
HeuristicWrite(d, lines, n) ==
    IF n > Len(Labels) THEN d
    ELSE LET i == FirstLine(lines, Labels[n]) IN
         IF i # 0 /\ Truthy(lines[i].value)
           THEN HeuristicWrite(SetKey(d, FieldOf[Labels[n]], lines[i].value),
                               lines, n + 1)
           ELSE HeuristicWrite(d, lines, n + 1)
Heuristic(d, lines) ==
    IF \E n \in 1..Len(Labels) :
          LET i == FirstLine(lines, Labels[n]) IN i # 0 /\ ~lines[i].colon
      THEN d
      ELSE HeuristicWrite(d, lines, 1)

\* What the extraction step does to the record: [data, exc], exc naming the
\* exception that reaches the top-level handler ("" when none does).
\* Company (533-638): fences stripped, then parsed; prospect (718-734):
\* parsed as it is.
Mut_ExtractInto(d, c, resp) ==
    IF ~c.model \/ resp.kind = "raise" THEN [data |-> d, exc |-> "extract"]
    ELSE LET t == IF c.kind = "company" THEN StripFences(resp) ELSE resp IN
         IF JsonParses(t)
           THEN IF t.json = "object"
                  THEN [data |-> MergeInfo(d, t.info), exc |-> ""]
                  ELSE [data |-> d, exc |-> "merge"]
           ELSE [data |-> Heuristic(d, t.lines), exc |-> ""]
ExtractInto(d, c, resp) ==
    IF ~c.model \/ resp.kind = "raise" THEN [data |-> d, exc |-> "extract"]
    ELSE LET t == IF c.kind = "company" THEN StripFences(resp) ELSE resp IN
         IF JsonParses(t)
           THEN IF t.json = "object"
                  THEN [data |-> MergeInfo(d, t.info), exc |-> ""]
                  ELSE [data |-> d, exc |-> "merge"]
           ELSE IF c.kind = "company"
                  THEN [data |-> Heuristic(d, t.lines), exc |-> ""]
                  ELSE [data |-> d, exc |-> ""]

\* except Exception as e: ... return company_data (642-644, 738-740)
Mut_TopLevelExcept == "raised"
TopLevelExcept == "returned"

(***************************************************************************)
(* The inputs of a lookup, drawn from small sets                           *)
(***************************************************************************)
MaxKeywords == 2    \* lines in a keyword response
MaxHits == 2        \* items in a search answer
MaxVerdicts == 2    \* elements of the selector's array
MaxLines == 2       \* lines of an extraction response that is not JSON

SeqsUpTo(S, n) == UNION {[1..m -> S] : m \in 0..n}

URLs == {"u1", "u2"}
Unlisted == "ux"    \* a url no search returned

Configs ==
    [kind : {"company"}, name : {"Acme Corp"}, hint : {None},
     model : BOOLEAN, creds : BOOLEAN]
    \cup
    [kind : {"prospect"}, name : {"Pat Lee"}, hint : {"Initech"},
     model : BOOLEAN, creds : BOOLEAN]

\* Keyword responses: line i is blank or holds the i-th word.
KwWords == <<"kA", "kB", "kC", "kD">>
KeywordResponses ==
    {Raise} \cup
    {Text(FALSE, "invalid", <<>>, <<>>, l) :
       l \in {x \in SeqsUpTo({""} \cup {KwWords[i] : i \in 1..MaxKeywords}, MaxKeywords) :
                \A i \in 1..Len(x) : x[i] \in {"", KwWords[i]}}}

\* Search: "error" (an exception, or an API status other than 200), or an
\* answer with items.
Bare(s) == [p \in 1..Len(s) |-> NoPagemap]
SearchOutcomes ==
    {[kind |-> "error", urls |-> <<>>, pagemaps |-> <<>>]}
    \cup {[kind |-> "ok", urls |-> s, pagemaps |-> Bare(s)] :
             s \in SeqsUpTo(URLs, MaxHits)}

\* Verdicts: complete ones for every url and both values of is_relevant,
\* one for a url that is no candidate's, one lacking "reason" and one
\* lacking "url", and one whose key_factors is null and not a list
\* (lacks = "list").  relevance_score is the
\* verdict's position in the array, so that verdicts can be told apart.
VerdictShapes ==
    [url : URLs, rel : {"true", "false"}, lacks : {""}]
    \cup {[url |-> Unlisted, rel |-> "true", lacks |-> ""],
          [url |-> "u1", rel |-> "true", lacks |-> "reason"],
          [url |-> "u1", rel |-> "true", lacks |-> "url"],
          [url |-> "u1", rel |-> "true", lacks |-> "list"]}
Verdict(sh, i) ==
    LET v == [url |-> sh.url, is_relevant |-> sh.rel, relevance_score |-> i,
              reason |-> "why", content_type |-> "news",
              key_factors |-> IF sh.lacks = "list" THEN None ELSE "[factor]"]
    IN [k \in DOMAIN v \ {sh.lacks} |-> v[k]]
VerdictArrays ==
    {[i \in 1..Len(shs) |-> Verdict(shs[i], i)] :
       shs \in SeqsUpTo(VerdictShapes, MaxVerdicts)}
SelectorResponses ==
    {Raise, Text(FALSE, "invalid", <<>>, <<>>, <<>>),
     Text(FALSE, "object", <<>>, <<>>, <<>>)}
    \cup {Text(FALSE, "array", vs, <<>>, <<>>) : vs \in VerdictArrays}
    \cup {Text(TRUE, "array", vs, <<>>, <<>>) :
            vs \in {x \in VerdictArrays : Len(x) = 1}}

\* Extraction responses.  A JSON object gives each of a few keys one of a
\* few values, or leaves it out ("-").
Absent == "-"
InfoOf(choice) == [k \in {x \in DOMAIN choice : choice[x] # Absent} |-> choice[k]]
CompanyInfos ==
    {InfoOf(c) : c \in [industry : {Absent, "Robotics"},
                        ceo_name : {Absent, "", "Jane Doe"},
                        executive_summary : {Absent, None},
                        name : {Absent, "Other Inc"}]}
ProspectInfos ==
    {InfoOf(c) : c \in [current_title : {Absent, "CTO"},
                        company_name : {Absent, "", "Globex"},
                        linkedin_url : {Absent, None},
                        name : {Absent, "Other Person"}]}
Lines ==
    {[label |-> "industry", colon |-> TRUE, value |-> "Fintech"],
     [label |-> "industry", colon |-> FALSE, value |-> ""],
     [label |-> "ceo", colon |-> TRUE, value |-> "Jane Doe"],
     [label |-> "other", colon |-> FALSE, value |-> ""]}
NotJson == {Text(FALSE, "invalid", <<>>, <<>>, l) : l \in SeqsUpTo(Lines, MaxLines)}
CompanyResponses ==
    {Raise, Text(FALSE, "array", <<>>, <<>>, <<>>)} \cup NotJson
    \cup {Text(FALSE, "object", <<>>, i, <<>>) : i \in CompanyInfos}
    \cup {Text(TRUE, "object", <<>>, i, <<>>) :
            i \in {x \in CompanyInfos : DOMAIN x \subseteq {"industry", "ceo_name"}}}
ProspectResponses ==
    {Raise, Text(FALSE, "array", <<>>, <<>>, <<>>)} \cup NotJson
    \cup {Text(FALSE, "object", <<>>, i, <<>>) : i \in ProspectInfos}
    \cup {Text(TRUE, "object", <<>>, i, <<>>) :
            i \in {x \in ProspectInfos : DOMAIN x \subseteq {"current_title", "company_name"}}}
ExtractionResponses(kind) ==
    IF kind = "company" THEN CompanyResponses ELSE ProspectResponses

\* A page fetch: "fail" (_make_request returned None, or an exception was
\* caught), or "text".
FetchOutcomes == {"fail", "text"}

(***************************************************************************)
(* scrape_company_info (437-644) / scrape_prospect_info (646-740), one     *)
(* external call per step.  The code between two calls belongs to the step *)
(* of the call before it.                                                  *)
(***************************************************************************)
Call(stage, arg) == [stage |-> stage, arg |-> arg]

\* return company_data / return prospect_data, on the normal path
Finish == pc' = "done" /\ ret' = "returned"

\* keywords = self._generate_search_keywords(...), up to the first search
GenerateKeywords(resp) ==
    /\ pc = "start"
    /\ cfg.model \/ resp = Raise
    /\ keywords' = GenerateSearchKeywords(cfg.name, cfg.model, resp)
    /\ calls' = Append(calls, Call("keywords", cfg.name))
    /\ raised' = IF cfg.model /\ resp.kind = "raise"
                   THEN raised \cup {"keywords"} ELSE raised
    /\ kw' = 1
    /\ IF keywords' = <<>> THEN Finish ELSE pc' = "search" /\ ret' = ret
    /\ UNCHANGED <<cfg, hitlog, all_urls, seen_urls, selin, selresp,
                   relevant_urls, fi, fetched, all_content, exresp, before,
                   data>>
    /\ UNCHANGED <<fvars, svars, cvars, avars, ovars>>

\* results = self._search_google(search_query) and the loop over results
Search(o) ==
    /\ pc = "search"
    /\ LET results == SearchGoogle(kw, cfg.creds, o)
           d == Dedup(all_urls, seen_urls, results, 1) IN
       /\ hitlog' = hitlog \o results
       /\ all_urls' = d.all_urls
       /\ seen_urls' = d.seen_urls
       /\ calls' = Append(calls, Call("search", SearchQuery(cfg.kind, keywords, kw)))
       /\ raised' = raised
       /\ kw' = kw + 1
       /\ IF kw < Len(keywords) THEN pc' = "search" /\ ret' = ret
          ELSE IF d.all_urls = <<>> THEN Finish
          ELSE pc' = "select" /\ ret' = ret
    /\ UNCHANGED <<cfg, keywords, selin, selresp, relevant_urls, fi,
                   fetched, all_content, exresp, before, data>>
    /\ UNCHANGED <<fvars, svars, cvars, avars, ovars>>

\* relevant_urls = self._select_relevant_urls(all_urls, ...)
Select(resp) ==
    /\ pc = "select"
    /\ cfg.model \/ resp = Raise
    /\ LET r == SelectRelevantUrls(all_urls, cfg.model, resp) IN
       /\ selin' = all_urls
       /\ selresp' = resp
       /\ all_urls' = r.urls
       /\ relevant_urls' = r.out
       /\ calls' = Append(calls, Call("select", cfg.name))
       /\ raised' = IF r.failed THEN raised \cup {"select"} ELSE raised
       /\ fi' = 1
       /\ IF r.out = <<>> THEN Finish ELSE pc' = "fetch" /\ ret' = ret
    /\ UNCHANGED <<cfg, keywords, kw, hitlog, seen_urls, fetched,
                   all_content, exresp, before, data>>
    /\ UNCHANGED <<fvars, svars, cvars, avars, ovars>>

\* content = self._extract_raw_content(url_info['url'])
FetchPage(o) ==
    /\ pc = "fetch"
    /\ LET u == relevant_urls[fi]["url"]
           content == ExtractRawContent(u, o) IN
       /\ fetched' = Append(fetched, u)
       /\ all_content' = IF content # "" THEN Append(all_content, content)
                         ELSE all_content
       /\ calls' = Append(calls, Call("fetch", [url |-> u, outcome |-> o]))
       /\ raised' = raised
       /\ fi' = fi + 1
       /\ IF fi < Len(relevant_urls) THEN pc' = "fetch" /\ ret' = ret
          ELSE IF all_content' = <<>> THEN Finish
          ELSE pc' = "extract" /\ ret' = ret
    /\ UNCHANGED <<cfg, keywords, kw, hitlog, all_urls, seen_urls, selin,
                   selresp, relevant_urls, exresp, before, data>>
    /\ UNCHANGED <<fvars, svars, cvars, avars, ovars>>

\* response = self.gemini_model.generate_content(prompt), to the return
Extract(resp) ==
    /\ pc = "extract"
    /\ cfg.model \/ resp = Raise
    /\ resp \in ExtractionResponses(cfg.kind)
    /\ LET r == ExtractInto(data, cfg, resp) IN
       /\ exresp' = resp
       /\ before' = data
       /\ data' = r.data
       /\ calls' = Append(calls, Call("extract", cfg.name))
       /\ raised' = IF r.exc # "" THEN raised \cup {r.exc} ELSE raised
       /\ pc' = "done"
       /\ ret' = IF r.exc # "" THEN TopLevelExcept ELSE "returned"
    /\ UNCHANGED <<cfg, keywords, kw, hitlog, all_urls, seen_urls, selin,
                   selresp, relevant_urls, fi, fetched, all_content>>
    /\ UNCHANGED <<fvars, svars, cvars, avars, ovars>>

\* The variables of the other calls, while none of them is running.
SearchIdle ==
    senv = <<>> /\ sreqs = <<>> /\ sres = [state |-> "idle", hits |-> <<>>]
CleanIdle ==
    /\ cpage = <<>> /\ cout = [state |-> "idle", fetch |-> "fail", text |-> <<>>]
    /\ ccontent = <<>> /\ corpus = [state |-> "idle", text |-> <<>>]
AgentIdle ==
    /\ input = <<>> /\ session = <<>>
    /\ response = [state |-> "idle", success |-> FALSE, data |-> <<>>, error |-> None]
RequestIdle ==
    fpc = "idle" /\ attempt = 0 /\ ftrace = <<>> /\ fret = "pending"
ScraperIdle == lookups = 0
FetchIdle == RequestIdle /\ SearchIdle /\ CleanIdle /\ AgentIdle /\ ScraperIdle

Init ==
    /\ FetchIdle
    /\ cfg \in Configs
    /\ pc = "start"
    /\ data = Placeholder(cfg)
    /\ before = data
    /\ Fresh

\* The whole lookup.  Each stage has a specification of its own below, which
\* draws that stage's inputs from the full sets; here the inputs are thinned
\* so that the stages can be composed: keyword responses without blank
\* lines, search answers without a repeated url, no more verdicts than there
\* are urls, and for the extraction a handful of responses of each kind.
NoRepeat(s) == \A i, j \in 1..Len(s) : i # j => s[i] # s[j]
LookupKeywordResponses ==
    {r \in KeywordResponses : \A i \in 1..Len(r.lines) : r.lines[i] # ""}
LookupSearchOutcomes == {o \in SearchOutcomes : NoRepeat(o.urls)}
LookupSelectorResponses ==
    {r \in SelectorResponses : Len(r.verdicts) <= Cardinality(URLs)}
LookupExtractionResponses ==
    {r \in CompanyResponses :
        /\ r.json = "object" =>
              {"industry", "ceo_name", "executive_summary"} \subseteq DOMAIN r.info
        /\ Len(r.lines) <= 1}
    \cup
    {r \in ProspectResponses :
        /\ r.json = "object" =>
              {"current_title", "company_name", "linkedin_url"} \subseteq DOMAIN r.info
        /\ Len(r.lines) <= 1}

Next ==
    \/ \E r \in LookupKeywordResponses : GenerateKeywords(r)
    \/ \E o \in LookupSearchOutcomes : Search(o)
    \/ \E r \in LookupSelectorResponses : Select(r)
    \/ \E o \in FetchOutcomes : FetchPage(o)
    \/ \E r \in LookupExtractionResponses : Extract(r)

Spec == Init /\ [][Next]_vars

(***************************************************************************)
(* Successive lookups on one scraper: scrape_company_info or               *)
(* scrape_prospect_info called again once a lookup has returned.  The      *)
(* record, the pool and the seen set are locals of the call, built anew at *)
(* 442-463 / 651-672, and so are all the other variables of a lookup; the  *)
(* scraper object (its model and its credentials) stays as it is.          *)
(***************************************************************************)
MaxLookups == 2     \* lookups on one scraper

\* all_urls = []
NewAllUrls(old) == <<>>
\* seen_urls = set()
Mut_NewSeenUrls(old) == old
NewSeenUrls(old) == {}

NextLookup(c) ==
    /\ pc = "done"
    /\ lookups + 1 < MaxLookups
    /\ c.model = cfg.model /\ c.creds = cfg.creds
    /\ lookups' = lookups + 1
    /\ cfg' = c
    /\ pc' = "start"
    /\ data' = Placeholder(c)
    /\ before' = data'
    /\ all_urls' = NewAllUrls(all_urls)
    /\ seen_urls' = NewSeenUrls(seen_urls)
    /\ keywords' = <<>> /\ kw' = 0 /\ hitlog' = <<>>
    /\ selin' = <<>> /\ selresp' = NoResp
    /\ relevant_urls' = <<>> /\ fi' = 0 /\ fetched' = <<>>
    /\ all_content' = <<>> /\ exresp' = NoResp /\ raised' = {}
    /\ calls' = <<>> /\ ret' = "pending"
    /\ UNCHANGED <<fvars, svars, cvars, avars>>

SuccessiveNext ==
    \/ Next
    \/ \E c \in Configs : NextLookup(c)

SuccessiveSpec == Init /\ [][SuccessiveNext]_vars

(***************************************************************************)
(* Discovery on its own: keyword generation and the searches, up to the    *)
(* complete pool (454-475, 661-684).                                       *)
(***************************************************************************)
PoolNext ==
    \/ \E r \in KeywordResponses : GenerateKeywords(r)
    \/ \E o \in SearchOutcomes : Search(o)

PoolSpec == Init /\ [][PoolNext]_vars

(***************************************************************************)
(* Selection and the page fetches on their own (475-487, 684-696), from    *)
(* any pool discovery can leave: candidates with distinct urls.            *)
(***************************************************************************)
Pools ==
    {[i \in 1..Len(us) |-> Hit(1, i, us[i], NoPagemap)] :
        us \in {x \in SeqsUpTo(URLs, Cardinality(URLs)) : x # <<>> /\ NoRepeat(x)}}

SelectInit ==
    /\ FetchIdle
    /\ cfg \in {c \in Configs : c.creds}
    /\ pc = "select"
    /\ data = Placeholder(cfg) /\ before = data
    /\ keywords = <<cfg.name>> /\ kw = 2
    /\ all_urls \in Pools
    /\ hitlog = all_urls
    /\ seen_urls = {all_urls[i]["url"] : i \in 1..Len(all_urls)}
    /\ selin = <<>> /\ selresp = NoResp
    /\ relevant_urls = <<>> /\ fi = 0 /\ fetched = <<>>
    /\ all_content = <<>> /\ exresp = NoResp /\ raised = {}
    /\ calls = <<>> /\ ret = "pending"

SelectNext ==
    \/ \E r \in SelectorResponses : Select(r)
    \/ \E o \in FetchOutcomes : FetchPage(o)

SelectSpec == SelectInit /\ [][SelectNext]_vars

(***************************************************************************)
(* Extraction on its own (487-644, 696-740): the model call on a corpus    *)
(* that is not empty, and what its response does to the record.            *)
(***************************************************************************)
ExtractInit ==
    /\ FetchIdle
    /\ cfg \in {c \in Configs : c.creds}
    /\ pc = "extract"
    /\ data = Placeholder(cfg) /\ before = data
    /\ keywords = <<cfg.name>> /\ kw = 2
    /\ all_urls \in {p \in Pools : Len(p) = 1}
    /\ hitlog = all_urls
    /\ seen_urls = {all_urls[i]["url"] : i \in 1..Len(all_urls)}
    /\ selin = all_urls /\ selresp = Raise
    /\ relevant_urls = all_urls /\ fi = 2
    /\ fetched = <<all_urls[1]["url"]>>
    /\ all_content = <<PageText[all_urls[1]["url"]]>>
    /\ exresp = NoResp /\ raised = {"select"}
    /\ calls = <<>> /\ ret = "pending"

ExtractNext == \E r \in CompanyResponses \cup ProspectResponses : Extract(r)

ExtractSpec == ExtractInit /\ [][ExtractNext]_vars

(***************************************************************************)
(* The merge loop (547-549, 728-730) on its own: any record of the         *)
(* lookup's shape, with fields already set or not, and any parsed object.  *)
(***************************************************************************)
MergeRecords ==
    {[Placeholder(c) EXCEPT !.industry = i, !.ceo = e] :
        c \in {x \in Configs : x.kind = "company" /\ x.model /\ x.creds},
        i \in {None, "Software"}, e \in {None, "Bob"}}
    \cup
    {[Placeholder(c) EXCEPT !.title = t, !.location = l] :
        c \in {x \in Configs : x.kind = "prospect" /\ x.model /\ x.creds},
        t \in {None, "VP"}, l \in {None, "Oslo"}}
MergeInfos ==
    {InfoOf(c) : c \in [industry : {Absent, None, "", "Robotics"},
                        ceo_name : {Absent, "Alice"},
                        ceo : {Absent, "", "Carol"}]}
    \cup
    {InfoOf(c) : c \in [title : {Absent, None, "", "CTO"},
                        current_title : {Absent, "CEO"},
                        location : {Absent, "[]", "Rome"}]}

MergeInit ==
    /\ FetchIdle /\ Fresh
    /\ pc = "merge"
    /\ cfg \in {x \in Configs : x.model /\ x.creds}
    /\ data \in {d \in MergeRecords : d.name = cfg.name}
    /\ before = data

MergeStep(info) ==
    /\ pc = "merge"
    /\ exresp' = Text(FALSE, "object", <<>>, info, <<>>)
    /\ before' = data
    /\ data' = MergeInfo(data, info)
    /\ pc' = "merged"
    /\ UNCHANGED <<cfg, keywords, kw, hitlog, all_urls, seen_urls, selin,
                   selresp, relevant_urls, fi, fetched, all_content, raised,
                   calls, ret>>
    /\ UNCHANGED <<fvars, svars, cvars, avars, ovars>>

MergeNext == \E info \in MergeInfos : MergeStep(info)

MergeSpec == MergeInit /\ [][MergeNext]_vars

(***************************************************************************)
(* One call of _search_google (160-229) on its own.  The provider answers  *)
(* the request with an error (an exception, or a status other than 200),   *)
(* or with a list of items, of any length up to MaxItems.                  *)
(***************************************************************************)
MaxItems == 6       \* items in the provider's answer
MaxTagged == 2      \* items in an answer whose items carry pagemaps

\* The pagemaps an item can carry: none; every key supplied; one key of one
\* group; a group given as []; a key supplied as null; a second entry in a
\* group (only the first is read); a pagemap that is not an object.
AllOf(keys) == [key \in keys |-> "v"]
GroupKeys(g) == {MetaSource[f][2] : f \in {x \in DOMAIN MetaSource : MetaSource[x][1] = g}}
Pagemaps ==
    {NoPagemap,
     [dict |-> TRUE, metatags |-> <<AllOf(GroupKeys("metatags"))>>,
      organization |-> <<AllOf(GroupKeys("organization"))>>,
      person |-> <<AllOf(GroupKeys("person"))>>],
     [dict |-> TRUE, metatags |-> <<AllOf({"og:description"})>>,
      organization |-> <<>>, person |-> <<AllOf({"name"})>>],
     [dict |-> TRUE, metatags |-> <<[key \in {"og:type"} |-> None]>>,
      organization |-> <<>>, person |-> <<>>],
     [dict |-> TRUE, metatags |-> <<AllOf({"og:type"}), AllOf({"og:description"})>>,
      organization |-> <<EmptyDict>>, person |-> <<>>],
     [dict |-> FALSE, metatags |-> <<>>, organization |-> <<>>, person |-> <<>>]}

ApiAnswers ==
    {[kind |-> "error", urls |-> <<>>, pagemaps |-> <<>>]}
    \cup {[kind |-> "ok", urls |-> s, pagemaps |-> Bare(s)] :
             s \in SeqsUpTo(URLs, MaxItems)}
    \cup {[kind |-> "ok", urls |-> [p \in 1..Len(pm) |-> "u1"], pagemaps |-> pm] :
             pm \in SeqsUpTo(Pagemaps, MaxTagged)}

SearchInit ==
    /\ RequestIdle /\ LookupIdle /\ CleanIdle /\ AgentIdle /\ ScraperIdle
    /\ senv \in [key : BOOLEAN, cse : BOOLEAN]
    /\ sreqs = <<>>
    /\ sres = [state |-> "pending", hits |-> <<>>]

SearchCall(o) ==
    /\ sres.state = "pending"
    /\ sreqs' = IF HasCredentials(senv)
                  THEN <<[params |-> [num |-> num], answer |-> o.kind,
                          items |-> Len(o.urls), pagemaps |-> o.pagemaps]>>
                  ELSE <<>>
    /\ sres' = [state |-> "returned",
                hits |-> SearchGoogle(1, HasCredentials(senv), o)]
    /\ UNCHANGED <<senv, fvars, lvars, cvars, avars, ovars>>

SearchNext == \E o \in ApiAnswers : SearchCall(o)

SearchSpec == SearchInit /\ [][SearchNext]_vars

(***************************************************************************)
(* One call of _extract_raw_content (259-300) on its own, with the text as *)
(* a sequence of characters.  The text of the page comes as chunks; the    *)
(* j-th chunk is the character j repeated, and 0 is the blank that joins   *)
(* the chunks.                                                             *)
(***************************************************************************)
MaxChunks == 3      \* chunks of a page
ChunkLens == {0, 1, 3998, 4999, 5000}
Pages == SeqsUpTo(ChunkLens, MaxChunks)

Chunk(j, n) == [i \in 1..n |-> j]
ChunksOf(page) == [j \in 1..Len(page) |-> Chunk(j, page[j])]

\* ' '.join(chunk for chunk in chunks if chunk)   (290)
RECURSIVE Join(_)
Join(chunks) ==
    IF chunks = <<>> THEN <<>>
    ELSE IF Len(chunks) = 1 THEN chunks[1]
    ELSE chunks[1] \o <<0>> \o Join(Tail(chunks))
Normalized(page) == Join(SelectSeq(ChunksOf(page), LAMBDA c : c # <<>>))

\* text = text[:4000]   (293)
ContentLimit == 4000
Mut_Truncate(t) == t
Truncate(t) ==
    [i \in 1..(IF Len(t) < ContentLimit THEN Len(t) ELSE ContentLimit) |-> t[i]]

CleanInit ==
    /\ RequestIdle /\ LookupIdle /\ SearchIdle /\ AgentIdle /\ ScraperIdle
    /\ cpage \in Pages
    /\ cout = [state |-> "pending", fetch |-> "fail", text |-> <<>>]
    /\ ccontent = <<>> /\ corpus = [state |-> "idle", text |-> <<>>]

\* "" when _make_request gave no response, else the cleaned text
CleanCall(o) ==
    /\ cout.state = "pending"
    /\ cout' = [state |-> "returned", fetch |-> o,
                text |-> IF o = "fail" THEN <<>> ELSE Truncate(Normalized(cpage))]
    /\ UNCHANGED <<cpage, ccontent, corpus, fvars, lvars, svars, avars, ovars>>

CleanNext == \E o \in FetchOutcomes : CleanCall(o)

CleanSpec == CleanInit /\ [][CleanNext]_vars

(***************************************************************************)
(* CorpusSpec: the fetch loop of a lookup and the join after it (480-489,  *)
(* 689-698), on page texts kept character by character.                    *)
(***************************************************************************)
MaxPages == 2       \* pages that give text in one lookup

\* pages of one chunk: empty, one character, just under and over the limit
CorpusPages == {<<0>>, <<1>>, <<3998>>, <<5000>>}

\* "\n\n", two characters
Newline == 0 - 1
Mut_Separator == <<Newline>>
Separator == <<Newline, Newline>>

\* "\n\n".join(all_content)   (489, 698)
RECURSIVE JoinPages(_)
JoinPages(texts) ==
    IF texts = <<>> THEN <<>>
    ELSE IF Len(texts) = 1 THEN texts[1]
    ELSE texts[1] \o Separator \o JoinPages(Tail(texts))

CorpusInit ==
    /\ RequestIdle /\ LookupIdle /\ SearchIdle /\ AgentIdle /\ ScraperIdle
    /\ cpage \in CorpusPages
    /\ cout = [state |-> "pending", fetch |-> "fail", text |-> <<>>]
    /\ ccontent = <<>> /\ corpus = [state |-> "idle", text |-> <<>>]

\* if content: all_content.append(content)   (483-484), then the next url
Collect(page) ==
    /\ cout.state = "returned" /\ corpus.state = "idle"
    /\ ccontent' = IF cout.text # <<>> THEN Append(ccontent, cout.text)
                                       ELSE ccontent
    /\ cpage' = page
    /\ cout' = [state |-> "pending", fetch |-> "fail", text |-> <<>>]
    /\ UNCHANGED <<corpus, fvars, lvars, svars, avars, ovars>>

\* if all_content: combined_content = "\n\n".join(all_content)   (487-489)
Combine ==
    /\ cout.state = "pending" /\ corpus.state = "idle"
    /\ ccontent # <<>>
    /\ corpus' = [state |-> "joined", text |-> JoinPages(ccontent)]
    /\ UNCHANGED <<cpage, cout, ccontent, fvars, lvars, svars, avars, ovars>>

CorpusNext ==
    \/ /\ corpus.state = "idle" /\ Len(ccontent) < MaxPages
       /\ \E o \in FetchOutcomes : CleanCall(o)
    \/ \E page \in CorpusPages : Collect(page)
    \/ Combine

CorpusSpec == CorpusInit /\ [][CorpusNext]_vars

(***************************************************************************)
(* CompanyResearchAgent.execute (company_research_agent.py 26-63) and      *)
(* ProspectResearchAgent.execute (prospect_research_agent.py 23-62): the   *)
(* validation, the lookup, and the response.  scraper.initialize() and     *)
(* scraper.close() only touch the session object: they are recorded in     *)
(* `session` by the step that makes them, and neither raises.              *)
(***************************************************************************)
\* input_data: the agent asked, the entity name under its key (Absent when
\* the key is not there) and, for a prospect, the company name.
AgentInputs ==
    [agent : {"company"}, name : {Absent, None, "", "Acme Corp"}, hint : {None}]
    \cup
    [agent : {"prospect"}, name : {Absent, None, "", "Pat Lee"}, hint : {"Initech"}]

\* validate_input: isinstance(input_data, dict) and "<key>" in input_data
ValidateInput(inp) == inp.name # Absent

\* if not company_name: / if not prospect_name:
Mut_NameGiven(name) == TRUE
NameGiven(name) == Truthy(name)

\* AgentResponse(success=False, data={}, error=...), also handle_error
\* (base_agent.py 26-32)
Failure(error) ==
    [state |-> "returned", success |-> FALSE, data |-> <<>>, error |-> error]
\* AgentResponse(success=True, data=company_data)
Success(d) ==
    [state |-> "returned", success |-> TRUE, data |-> d, error |-> None]

\* self.scraper.initialize() (44 / 43) and self.scraper.close() (50 and
\* 58-59 / 49 and 57-58)
InitializeSession(ses) == Append(ses, "initialize")
Mut_CloseSession(ses) == ses
CloseSession(ses) == Append(ses, "close")

AgentInit ==
    /\ RequestIdle /\ LookupIdle /\ SearchIdle /\ CleanIdle /\ ScraperIdle
    /\ input \in AgentInputs
    /\ session = <<>>
    /\ response = [state |-> "pending", success |-> FALSE, data |-> <<>>,
                   error |-> None]

\* execute, up to the call of scrape_company_info / scrape_prospect_info
Execute ==
    /\ response.state = "pending" /\ pc = "idle"
    /\ IF ~ValidateInput(input)
         THEN /\ response' = Failure("Invalid input data")
              /\ UNCHANGED <<pc, cfg, data, before, session>>
         ELSE IF ~NameGiven(input.name)
           THEN /\ response' = Failure("name is required")
                /\ UNCHANGED <<pc, cfg, data, before, session>>
           ELSE /\ response' = response
                /\ session' = InitializeSession(session)
                /\ pc' = "start"
                /\ cfg' \in [kind : {input.agent}, name : {input.name},
                              hint : {input.hint}, model : BOOLEAN,
                              creds : BOOLEAN]
                /\ data' = Placeholder(cfg')
                /\ before' = data'
    /\ UNCHANGED <<keywords, kw, hitlog, all_urls, seen_urls, selin, selresp,
                   relevant_urls, fi, fetched, all_content, exresp, raised,
                   calls, ret>>
    /\ UNCHANGED <<input, fvars, svars, cvars, ovars>>

\* execute, from the return of the lookup: the response, or handle_error
\* when the lookup raised
Respond ==
    /\ response.state = "pending" /\ pc = "done"
    /\ response' = IF ret = "raised" THEN Failure("exception") ELSE Success(data)
    /\ session' = CloseSession(session)
    /\ UNCHANGED <<input, fvars, lvars, svars, cvars, ovars>>

AgentNext ==
    \/ Execute
    \/ Next
    \/ Respond

AgentSpec == AgentInit /\ [][AgentNext]_vars

FetchInit ==
    /\ fpc = "try" /\ attempt = 0 /\ ftrace = <<>> /\ fret = "pending"
    /\ LookupIdle
    /\ SearchIdle /\ CleanIdle /\ AgentIdle /\ ScraperIdle

FetchNext ==
    \/ \E o \in Outcomes : TryRequest(o)
    \/ \E o \in Outcomes : FallbackRequest(o)

FetchSpec == FetchInit /\ [][FetchNext]_vars

\* The same call when every requests.get returns or raises (each has
\* timeout=30): a step that can be taken is taken.
FetchLiveSpec == FetchSpec /\ WF_vars(FetchNext)


(***************************************************************************)
(* C1. Relevance fail-open: when the selector's model call raised, or the  *)
(* text it returned is not JSON, _select_relevant_urls returned its input  *)
(* list: the same candidates, unchanged, in the same order.                *)
(***************************************************************************)
SelectorCalled == selresp.kind # "none"
ModelCallFailed == selresp.kind = "raise" \/ selresp.json = "invalid"

C1_FailOpen ==
    SelectorCalled /\ ModelCallFailed =>
        relevant_urls = selin /\ all_urls = selin

C1_Witness ==
    /\ SelectorCalled /\ cfg.model
    /\ selresp.kind = "text" /\ selresp.json = "invalid"
    /\ Len(selin) = 2 /\ relevant_urls = selin

(***************************************************************************)
(* C2, as claimed.  A lookup never ends raising, and whenever an exception *)
(* was raised in one of its stages the record returned is the placeholder. *)
(***************************************************************************)
C2_AnyExceptionYieldsPlaceholder ==
    /\ ret # "raised"
    /\ pc = "done" /\ raised # {} => data = Placeholder(cfg)

(***************************************************************************)
(* C2, amended.  A lookup never ends raising: when it is done it has       *)
(* returned a record.  An exception that reaches the top-level handler     *)
(* (raised by the extraction model call, or on merging a parsed response   *)
(* that is not an object) leaves the record equal to the placeholder.  An  *)
(* exception raised in keyword generation or relevance selection is        *)
(* absorbed there and the lookup goes on.                                  *)
(***************************************************************************)
ReachedTopLevel == raised \cap {"extract", "merge"} # {}

C2_NeverPropagates ==
    /\ ret # "raised"
    /\ pc = "done" <=> ret = "returned"
    /\ pc = "done" /\ ReachedTopLevel => data = Placeholder(cfg)

C2_Witness ==
    /\ pc = "done" /\ ret = "returned"
    /\ "keywords" \in raised /\ "extract" \in raised
    /\ cfg.model /\ data = Placeholder(cfg)

(***************************************************************************)
(* C3. Every url fetched is the url of a candidate the selector returned   *)
(* with is_relevant true (one of its verdicts says so), or, when the       *)
(* selector failed, of a candidate of the unfiltered pool; and every text  *)
(* of the corpus is the text of a fetched url.                             *)
(***************************************************************************)
SelectorFailed == "select" \in raised

C3_FetchedAreSelected ==
    /\ \A i \in 1..Len(fetched) :
          IF SelectorFailed
            THEN \E j \in 1..Len(selin) : selin[j]["url"] = fetched[i]
            ELSE /\ \E j \in 1..Len(relevant_urls) :
                       /\ relevant_urls[j]["url"] = fetched[i]
                       /\ relevant_urls[j]["is_relevant"] = "true"
                 /\ \E n \in 1..Len(selresp.verdicts) :
                       /\ selresp.verdicts[n]["url"] = fetched[i]
                       /\ selresp.verdicts[n]["is_relevant"] = "true"
                 /\ \E j \in 1..Len(selin) : selin[j]["url"] = fetched[i]
    /\ \A i \in 1..Len(all_content) :
          \E j \in 1..Len(fetched) : all_content[i] = PageText[fetched[j]]

\* the selector succeeded and dropped a candidate; the one it kept is fetched
C3_Witness ==
    /\ SelectorCalled /\ ~SelectorFailed
    /\ Len(selin) = 2 /\ Len(relevant_urls) = 1
    /\ fetched = <<relevant_urls[1]["url"]>>
    /\ Len(all_content) = 1

(***************************************************************************)
(* C4. Deduplication: the pool holds each url the searches returned, once; *)
(* the hit kept for a url is the first one seen (keyword order, then hit   *)
(* order); and the pool is in first-seen order.                            *)
(***************************************************************************)
FirstSeen(u) ==
    CHOOSE i \in 1..Len(hitlog) :
        hitlog[i]["url"] = u /\ \A j \in 1..(i - 1) : hitlog[j]["url"] # u

C4_Dedup ==
    /\ \A i, j \in 1..Len(all_urls) :
          i # j => all_urls[i]["url"] # all_urls[j]["url"]
    /\ {all_urls[i]["url"] : i \in 1..Len(all_urls)}
          = {hitlog[i]["url"] : i \in 1..Len(hitlog)}
    /\ \A i \in 1..Len(all_urls) :
          LET h == hitlog[FirstSeen(all_urls[i]["url"])] IN
            /\ all_urls[i]["title"] = h["title"]
            /\ all_urls[i]["source"] = h["source"]
    /\ \A i, j \in 1..Len(all_urls) :
          i < j => FirstSeen(all_urls[i]["url"]) < FirstSeen(all_urls[j]["url"])

\* two keywords; a url repeated within the first keyword's results and
\* again in the second keyword's
C4_Witness ==
    /\ pc = "select" /\ Len(keywords) = 2
    /\ Len(hitlog) = 4 /\ Len(all_urls) = 2
    /\ hitlog[1]["url"] = hitlog[2]["url"]
    /\ hitlog[3]["url"] # hitlog[1]["url"]
    /\ hitlog[4]["url"] = hitlog[1]["url"]

(***************************************************************************)
(* C5. Company extraction result mapping: after a parsed JSON object, each *)
(* non-empty value given under a schema field name is in the final record  *)
(* under the corresponding record field; in the scenario (one keyword, two *)
(* hits, both relevant, both fetched, the model returns industry           *)
(* "Robotics", ceo_name "Jane Doe", executive_summary null) the record is  *)
(* the placeholder with industry and ceo set.                              *)
(***************************************************************************)
RecordField ==
    [description |-> "description", industry |-> "industry",
     location |-> "headquarters", founding_date |-> "founded",
     size |-> "size", ceo_name |-> "ceo", website |-> "website",
     executive_summary |-> "executive_summary"]
ParsedObject ==
    /\ exresp.kind = "text" /\ exresp.json = "object"
    /\ cfg.kind = "company" \/ ~exresp.fenced
ScenarioInfo ==
    [industry |-> "Robotics", ceo_name |-> "Jane Doe", executive_summary |-> None]

C5_ResultMapping ==
    pc = "done" /\ cfg.kind = "company" /\ ParsedObject =>
        /\ \A k \in DOMAIN exresp.info \cap DOMAIN RecordField :
              Truthy(exresp.info[k]) => data[RecordField[k]] = exresp.info[k]
        /\ ( /\ exresp.info = ScenarioInfo
             /\ Len(keywords) = 1 /\ Len(hitlog) = 2 /\ Len(relevant_urls) = 2
             /\ Len(all_content) = 2 )
           => data = [Placeholder(cfg) EXCEPT !.industry = "Robotics",
                                              !.ceo = "Jane Doe"]

IsRequest(e) == e.ev = "request"
IsValidating(e) == e.ev = "request" /\ e.verify
IsSleep(e) == e.ev = "sleep"
IsTransient(e) == e.ev = "request" /\ e.exc = "none" /\ e.status \in {429, 502}
Requests == SelectSeq(ftrace, IsRequest)
Validating == SelectSeq(ftrace, IsValidating)
SecsOf(e) == e.secs
StatusOf(e) == e.status
MapSeq(Op(_), s) == [i \in 1..Len(s) |-> Op(s[i])]
Delays == MapSeq(SecsOf, SelectSeq(ftrace, IsSleep))
\* The statuses answered, when every request was a validating one that got
\* an answer; <<>> otherwise.
AllAnswered ==
    \A i \in 1..Len(Requests) : Requests[i].verify /\ Requests[i].exc = "none"
StatusRun == IF AllAnswered THEN MapSeq(StatusOf, Requests) ELSE <<>>

(***************************************************************************)
(* C7. A 429 or 502 answer is retried after a sleep, a fetch never starts  *)
(* a 4th attempt (loop iteration), and once three attempts were answered   *)
(* 429/502 the fetch has ended with None.                                  *)
(***************************************************************************)
C7_RetryLimit ==
    /\ Len(Validating) <= 3
    /\ \A i \in 1..Len(ftrace) : ftrace[i].attempt < 3
    /\ \A i \in 1..Len(ftrace) :
          IsValidating(ftrace[i]) /\ IsTransient(ftrace[i]) =>
             /\ i + 1 <= Len(ftrace) /\ IsSleep(ftrace[i + 1])
             /\ ftrace[i].attempt < 2 =>
                   IF i + 1 = Len(ftrace)
                     THEN fpc = "try" /\ fret = "pending"
                     ELSE /\ IsValidating(ftrace[i + 2])
                          /\ ftrace[i + 2].attempt = ftrace[i].attempt + 1
    /\ Len(SelectSeq(Validating, IsTransient)) = 3 =>
          fpc = "done" /\ fret = "None"

C7_Witness ==
    /\ fpc = "done" /\ fret = "None"
    /\ StatusRun \in {<<429, 502, 429>>, <<502, 502, 502>>}

(***************************************************************************)
(* C8. Three 429 answers in a row: sleeps of 2, 4 and 8 seconds, in that   *)
(* order, and then None.  A 200 on a later attempt is returned at once,    *)
(* after only the sleeps that preceded it: 429, 200 -> 2; 429, 429, 200 -> *)
(* 2, 4.                                                                   *)
(***************************************************************************)
C8_BackoffTiming ==
    /\ StatusRun = <<429>> => Delays = <<2>>
    /\ StatusRun = <<429, 429>> => Delays = <<2, 4>>
    /\ StatusRun = <<429, 429, 429>> =>
          Delays = <<2, 4, 8>> /\ fpc = "done" /\ fret = "None"
    /\ StatusRun = <<429, 200>> =>
          Delays = <<2>> /\ fpc = "done" /\ fret = "R200"
    /\ StatusRun = <<429, 429, 200>> =>
          Delays = <<2, 4>> /\ fpc = "done" /\ fret = "R200"
    /\ fret = "R200" => IsRequest(ftrace[Len(ftrace)])

C8_Witness ==
    \/ StatusRun = <<429, 429, 429>> /\ Delays = <<2, 4, 8>>
    \/ StatusRun = <<429, 429, 200>> /\ fret = "R200"

(***************************************************************************)
(* C9. An answer whose status is not 2xx and is neither 429 nor 502 ends   *)
(* the fetch: it is the last event of the call (no request and no sleep    *)
(* after it) and the call has returned None.                               *)
(***************************************************************************)
IsPermanent(e) ==
    /\ e.ev = "request" /\ e.exc = "none"
    /\ e.status \notin 200..299 /\ e.status \notin {429, 502}

C9_PermanentFaultEndsFetch ==
    \A i \in 1..Len(ftrace) :
        IsPermanent(ftrace[i]) =>
            i = Len(ftrace) /\ fpc = "done" /\ fret = "None"

(***************************************************************************)
(* C10. No exception leaves _make_request: whatever the requests do, the   *)
(* call never ends raising, and when it has ended it returned None or a    *)
(* response of status 200, the answer to its last request.                 *)
(***************************************************************************)
C10_FetchNonFatal ==
    /\ fret # "raised"
    /\ fpc = "done" => fret \in {"None", "R200"}
    /\ fpc # "done" => fret = "pending"
    /\ fret = "R200" =>
          LET e == ftrace[Len(ftrace)] IN
            IsRequest(e) /\ e.exc = "none" /\ e.status = 200

\* retries exhausted by network exceptions, or the validation-disabled
\* request raising
C10_Witness ==
    /\ fpc = "done" /\ fret = "None"
    /\ LET e == ftrace[Len(ftrace)] IN
         /\ IsRequest(e) /\ e.exc # "none"
         /\ \/ e.verify /\ e.attempt = 2 /\ e.exc = "RequestException"
            \/ ~e.verify

(***************************************************************************)
(* C11. Within one fetch call at most one request is issued with           *)
(* certificate validation disabled, and such a request directly follows a  *)
(* validating request that failed certificate validation.                  *)
(***************************************************************************)
IsFallback(e) == e.ev = "request" /\ ~e.verify

C11_TlsFallbackOnce ==
    /\ Len(SelectSeq(ftrace, IsFallback)) <= 1
    /\ \A i \in 1..Len(ftrace) :
          IsFallback(ftrace[i]) =>
             /\ i > 1
             /\ IsValidating(ftrace[i - 1])
             /\ ftrace[i - 1].exc = "SSLError"

(***************************************************************************)
(* C12 (as first stated). A network exception is treated as a 429/502      *)
(* answer is: at most three attempts, and after the k-th failed attempt a  *)
(* sleep of 2, 4, 8 seconds for k = 1, 2, 3, whichever way it failed.      *)
(***************************************************************************)
IsNetworkFault(e) == e.ev = "request" /\ e.verify /\ e.exc = "RequestException"
\* a validating request that failed either way
IsBackedOff(e) == IsNetworkFault(e) \/ (IsValidating(e) /\ IsTransient(e))

C12_SamePolicy ==
    /\ Len(Validating) <= 3
    /\ \A i \in 1..Len(ftrace) :
          IsBackedOff(ftrace[i]) =>
             /\ i + 1 <= Len(ftrace)
             /\ IsSleep(ftrace[i + 1])
             /\ ftrace[i + 1].secs = 2 * (2 ^ ftrace[i].attempt)

(***************************************************************************)
(* C12 (amended). A network exception and a 429/502 answer both end the    *)
(* fetch with None after the third attempt, and both are followed by a     *)
(* sleep of 2 seconds after the first attempt and of 4 after the second.   *)
(* After the third attempt they differ: a 429/502 answer is followed by a  *)
(* sleep of 8 seconds, a network exception by no sleep at all; it is       *)
(* raised again, and the call returns None.                                *)
(***************************************************************************)
C12_SamePolicyButLast ==
    /\ Len(Validating) <= 3
    /\ \A i \in 1..Len(ftrace) :
          IsBackedOff(ftrace[i]) =>
             IF ftrace[i].attempt < 2
               THEN /\ i + 1 <= Len(ftrace)
                    /\ IsSleep(ftrace[i + 1])
                    /\ ftrace[i + 1].secs = 2 * (2 ^ ftrace[i].attempt)
               ELSE /\ fpc = "done" /\ fret = "None"
                    /\ IsTransient(ftrace[i]) =>
                          /\ Len(ftrace) = i + 1
                          /\ IsSleep(ftrace[i + 1]) /\ ftrace[i + 1].secs = 8
                    /\ IsNetworkFault(ftrace[i]) => Len(ftrace) = i

\* three network exceptions in a row; and a mixed run
C12_Witness ==
    /\ fpc = "done" /\ fret = "None"
    /\ Len(Validating) = 3
    /\ \A i \in 1..3 : IsNetworkFault(Validating[i])
    /\ Delays = <<2, 4>>

(***************************************************************************)
(* C13. Company path: whenever the extraction response is not valid JSON   *)
(* and holds the line "Industry: Fintech", the lookup returns a record     *)
(* whose industry is "Fintech".                                            *)
(***************************************************************************)
IndustryFintech == [label |-> "industry", colon |-> TRUE, value |-> "Fintech"]
HoldsLine(resp, line) == \E i \in 1..Len(resp.lines) : resp.lines[i] = line

C13_HeuristicIndustry ==
    ( /\ pc = "done" /\ cfg.kind = "company"
      /\ exresp.kind = "text" /\ ~JsonParses(StripFences(exresp))
      /\ HoldsLine(exresp, IndustryFintech) )
    => ret = "returned" /\ data["industry"] = "Fintech"

(***************************************************************************)
(* C14. Prospect path: when the extraction response is not valid JSON the  *)
(* lookup returns normally and the record is the placeholder, whatever     *)
(* the lines of the response say.                                          *)
(***************************************************************************)
C14_ProspectParseFailure ==
    ( /\ pc = "done" /\ cfg.kind = "prospect"
      /\ exresp.kind = "text" /\ ~JsonParses(exresp) )
    => /\ ret = "returned"
       /\ raised \cap {"extract", "merge"} = {}
       /\ data = Placeholder(cfg)
       /\ data = [name |-> cfg.name, title |-> None, company |-> cfg.hint,
                  location |-> None, experience |-> None, education |-> None,
                  linkedin_url |-> None]

C14_Witness ==
    /\ pc = "done" /\ cfg.kind = "prospect" /\ ret = "returned"
    /\ exresp.kind = "text" /\ exresp.json = "invalid"
    /\ HoldsLine(exresp, IndustryFintech)
    /\ data = Placeholder(cfg)

(***************************************************************************)
(* C15. Valid JSON wrapped in code-fence markers gives what the same JSON  *)
(* gives without the markers, in the selection and in both extractions.    *)
(***************************************************************************)
Unfenced(resp) == [resp EXCEPT !.fenced = FALSE]
FencedJson(resp) == resp.kind = "text" /\ resp.fenced /\ resp.json # "invalid"

C15_FenceTolerance ==
    /\ FencedJson(selresp) /\ pc # "select" =>
          relevant_urls = SelectRelevantUrls(selin, cfg.model, Unfenced(selresp)).out
    /\ FencedJson(exresp) /\ pc = "done" =>
          data = ExtractInto(before, cfg, Unfenced(exresp)).data

(***************************************************************************)
(* C16. Without search credentials every search returns the empty list,    *)
(* so that the lookup calls neither the selector nor a page nor the        *)
(* extraction model, and returns the placeholder: the name as given and,   *)
(* on the company path, None in every other field (on the prospect path    *)
(* the company hint as given and None in the rest).                        *)
(***************************************************************************)
StagesCalled == {calls[i].stage : i \in 1..Len(calls)}
SearchCalls == SelectSeq(calls, LAMBDA c : c.stage = "search")

C16_NoCredentials ==
    (pc # "idle" /\ ~cfg.creds) =>
        /\ hitlog = <<>> /\ all_urls = <<>>
        /\ fetched = <<>> /\ all_content = <<>>
        /\ exresp = NoResp
        /\ StagesCalled \subseteq {"keywords", "search"}
        /\ pc \in {"start", "search", "done"}
        /\ data = Placeholder(cfg)
        /\ data["name"] = cfg.name
        /\ cfg.kind = "company" =>
              \A k \in DOMAIN data \ {"name"} : data[k] = None
        /\ pc = "done" => ret = "returned"

C16_Witness ==
    /\ pc = "done" /\ ~cfg.creds /\ cfg.kind = "company"
    /\ Len(keywords) = 2 /\ Len(SearchCalls) = 2
    /\ ret = "returned" /\ data = Placeholder(cfg)

(***************************************************************************)
(* C17. _search_google never raises.  When either credential is missing it *)
(* returns the empty list without issuing a request, and when the request  *)
(* ends in an error (an exception or a status other than 200) it returns   *)
(* the empty list as well.                                                 *)
(***************************************************************************)
C17_SearchSoftFail ==
    /\ sres.state # "raised"
    /\ sres.state = "returned" /\ (~senv.key \/ ~senv.cse) =>
          sres.hits = <<>> /\ sreqs = <<>>
    /\ sres.state = "returned" /\ sreqs # <<>> /\ sreqs[1].answer = "error" =>
          sres.hits = <<>>
    /\ Len(sreqs) <= 1

\* one credential set, the other missing
C17_Witness ==
    /\ sres.state = "returned" /\ sres.hits = <<>> /\ sreqs = <<>>
    /\ senv.key # senv.cse

(***************************************************************************)
(* C18. _search_google returns at most 5 hits, however many items the      *)
(* provider's answer holds.                                                *)
(***************************************************************************)
C18_AtMostFiveHits ==
    sres.state = "returned" => Len(sres.hits) <= 5

(***************************************************************************)
(* C19. The text _extract_raw_content returns is at most 4000 characters   *)
(* long; when the page was fetched it is the first min(4000, n) characters *)
(* of the normalized text, n being that text's length, and so exactly 4000 *)
(* characters of a normalized text of 10,000.                              *)
(***************************************************************************)
C19_ContentTruncation ==
    cout.state = "returned" =>
        LET norm == Normalized(cpage)
            n == Len(norm)
            t == cout.text IN
        /\ Len(t) <= 4000
        /\ cout.fetch = "text" =>
              /\ Len(t) = IF n < 4000 THEN n ELSE 4000
              /\ \A i \in 1..Len(t) : t[i] = norm[i]
              /\ n = 10000 => Len(t) = 4000

C19_Witness ==
    /\ cout.state = "returned" /\ cout.fetch = "text"
    /\ Len(Normalized(cpage)) = 10000
    /\ Len(cout.text) = 4000

(***************************************************************************)
(* C20. An agent request whose entity name is not empty is answered with   *)
(* success = true and the record of the lookup, whatever was raised in     *)
(* the lookup; a request whose entity name is missing or empty is          *)
(* answered with success = false and an error, and no other request is.    *)
(***************************************************************************)
NameMissing == input.name \in {Absent, None, ""}

C20_AgentAlwaysAnswers ==
    /\ response.state = "returned" =>
          IF NameMissing
            THEN ~response.success /\ response.error # None /\ pc = "idle"
            ELSE /\ response.success /\ response.error = None
                 /\ pc = "done"
                 /\ response.data = data
                 /\ "name" \in DOMAIN response.data
    /\ pc = "done" => ret = "returned"

C20_Witness ==
    /\ response.state = "returned" /\ response.success
    /\ {"keywords", "select", "extract"} \subseteq raised
    /\ fetched # <<>>

(***************************************************************************)
(* C21. Whenever execute has returned after calling scraper.initialize(),  *)
(* it has called scraper.close() after it; and it calls neither twice.     *)
(***************************************************************************)
C21_SessionReleased ==
    /\ response.state = "returned" /\ session # <<>> =>
          session = <<"initialize", "close">>
    /\ response.state = "pending" => session \in {<<>>, <<"initialize">>}
    /\ session # <<>> => session[1] = "initialize"

\* a request whose lookup absorbed exceptions on the way
C21_Witness ==
    /\ response.state = "returned"
    /\ session = <<"initialize", "close">>
    /\ raised # {}

(***************************************************************************)
(* C22. A lookup on a scraper that has completed lookups before starts     *)
(* from the placeholder of its own entity, an empty pool and an empty seen *)
(* set, and what it computes is a function of its own arguments and of the *)
(* responses it received: the pool is the deduplication of its own hits,   *)
(* the selection that of its own pool, the record its own placeholder with *)
(* its own extraction response merged in.                                  *)
(***************************************************************************)
OwnPool == Dedup(<<>>, {}, hitlog, 1)

C22_NoCarryOver ==
    pc # "idle" =>
        /\ pc = "start" =>
              data = Placeholder(cfg) /\ all_urls = <<>> /\ seen_urls = {}
        /\ seen_urls = OwnPool.seen_urls
        /\ pc \in {"search", "select"} => all_urls = OwnPool.all_urls
        /\ SelectorCalled =>
              /\ selin = OwnPool.all_urls
              /\ relevant_urls = SelectRelevantUrls(selin, cfg.model, selresp).out
        /\ pc # "done" => data = Placeholder(cfg)
        /\ pc = "done" =>
              data = IF exresp.kind = "none" THEN Placeholder(cfg)
                     ELSE ExtractInto(Placeholder(cfg), cfg, exresp).data

\* a second lookup that found hits of its own and filled its record
C22_Witness ==
    /\ lookups = 1 /\ pc = "done"
    /\ Len(hitlog) >= 2 /\ Len(all_urls) = 1
    /\ data # Placeholder(cfg)

(***************************************************************************)
(* C23 (as first stated). Whenever the selector's response parses, every   *)
(* element of the output is an input candidate whose url is the url of a   *)
(* verdict, has is_relevant true and carries the relevance_score, reason,  *)
(* content_type and key_factors of a verdict for its url (the last one);   *)
(* no element of the output has a url that only a verdict names.           *)
(***************************************************************************)
VerdictKeys == {"url", "relevance_score", "reason", "content_type",
                "key_factors", "is_relevant"}
SelectorParsed ==
    SelectorCalled /\ cfg.model /\ selresp.kind = "text"
    /\ JsonParses(StripFences(selresp))
VerdictsFor(u) ==
    {n \in 1..Len(selresp.verdicts) :
        "url" \in DOMAIN selresp.verdicts[n] /\ selresp.verdicts[n]["url"] = u}
LastVerdictFor(u) ==
    selresp.verdicts[CHOOSE n \in VerdictsFor(u) : \A m \in VerdictsFor(u) : m <= n]
OutputIsMatchedAndRelevant ==
    \A j \in 1..Len(relevant_urls) :
        LET c == relevant_urls[j] IN
        /\ \E i \in 1..Len(selin) :
              /\ selin[i]["url"] = c["url"]
              /\ selin[i]["title"] = c["title"]
        /\ VerdictsFor(c["url"]) # {}
        /\ "is_relevant" \in DOMAIN c /\ c["is_relevant"] = "true"
        /\ LET v == LastVerdictFor(c["url"]) IN
              /\ VerdictKeys \subseteq DOMAIN v
              /\ c["relevance_score"] = v["relevance_score"]
              /\ c["relevance_reason"] = v["reason"]
              /\ c["content_type"] = v["content_type"]
              /\ c["key_factors"] = v["key_factors"]

C23_SelectorOutput == SelectorParsed => OutputIsMatchedAndRelevant

(***************************************************************************)
(* C23 (amended). The same, when the response parses as an array of        *)
(* verdicts that each carry all six keys, key_factors being a list; then   *)
(* the selector does not fall back either.  On a response that parses but  *)
(* is not of that shape the selector can fall back, and then it returns    *)
(* its whole input.                                                        *)
(***************************************************************************)
WellFormedVerdicts ==
    /\ SelectorParsed /\ selresp.json = "array"
    /\ \A n \in 1..Len(selresp.verdicts) :
          /\ VerdictKeys \subseteq DOMAIN selresp.verdicts[n]
          /\ Joinable(selresp.verdicts[n]["key_factors"])

C23_WellFormedSelectorOutput ==
    /\ WellFormedVerdicts => ~SelectorFailed /\ OutputIsMatchedAndRelevant
    /\ SelectorParsed /\ SelectorFailed =>
          /\ ~WellFormedVerdicts
          /\ Len(relevant_urls) = Len(selin)
          /\ \A i \in 1..Len(selin) : relevant_urls[i]["url"] = selin[i]["url"]

\* two candidates; one verdict keeps the first, one names a url that is no
\* candidate's
C23_Witness ==
    /\ WellFormedVerdicts /\ Len(selin) = 2 /\ Len(selresp.verdicts) = 2
    /\ \E n \in 1..2 : selresp.verdicts[n]["url"] = Unlisted
    /\ Len(relevant_urls) = 1

(***************************************************************************)
(* C24. Company heuristic: every label whose first occurrence is followed  *)
(* by a colon and a text sets its field to that text, whatever the lines   *)
(* of the other labels look like.                                          *)
(***************************************************************************)
HeuristicRan ==
    /\ pc = "done" /\ cfg.kind = "company"
    /\ exresp.kind = "text" /\ ~JsonParses(StripFences(exresp))

C24_LabelsIndependent ==
    HeuristicRan =>
        \A n \in 1..Len(Labels) :
            LET i == FirstLine(exresp.lines, Labels[n]) IN
            (i # 0 /\ exresp.lines[i].colon /\ Truthy(exresp.lines[i].value))
                => data[FieldOf[Labels[n]]] = exresp.lines[i].value

(***************************************************************************)
(* C25. Within one lookup no url is fetched twice and no page's text is in *)
(* the corpus twice.                                                       *)
(***************************************************************************)
C25_FetchedOnce == NoRepeat(fetched) /\ NoRepeat(all_content)

(***************************************************************************)
(* C30. The record a lookup returns has the entity name it was called with *)
(* in its name field.                                                      *)
(***************************************************************************)
C30_NameKept == pc = "done" => data["name"] = cfg.name

(***************************************************************************)
(* C26. A page fetch that yields no content does not stop the lookup: the  *)
(* selected urls are all fetched, in selection order; the corpus is the    *)
(* texts of the fetches that yielded text, in that order; and the          *)
(* extraction model is called exactly when the corpus is not empty.        *)
(* As stated this fails for a scraper without a model (gemini_model is     *)
(* None): the extraction step is entered, and raises before any call.      *)
(* Amended: the extraction step is entered exactly when the corpus is not  *)
(* empty, the model is called exactly when moreover one is configured, and *)
(* without one the lookup then ends in the top-level handler.              *)
(***************************************************************************)
FetchCalls == SelectSeq(calls, LAMBDA c : c.stage = "fetch")
GaveText(c) == c.arg.outcome = "text"
TextOf(c) == PageText[c.arg.url]
FetchesDone == SelectorCalled /\ pc \in {"extract", "done"}

\* self.gemini_model.generate_content(prompt) with gemini_model None raises
\* AttributeError before anything is called (533, 719)
ExtractionModelCalled == cfg.model /\ "extract" \in StagesCalled

AllSelectedFetched ==
    /\ Len(FetchCalls) = Len(fetched)
    /\ Len(fetched) <= Len(relevant_urls)
    /\ \A i \in 1..Len(fetched) :
          /\ fetched[i] = relevant_urls[i]["url"]
          /\ FetchCalls[i].arg.url = fetched[i]
    /\ FetchesDone => Len(fetched) = Len(relevant_urls)

CorpusIsFetchedTexts ==
    all_content = MapSeq(TextOf, SelectSeq(FetchCalls, GaveText))

C26_FetchFailureSkipped ==
    /\ AllSelectedFetched
    /\ CorpusIsFetchedTexts
    /\ pc = "done" => (ExtractionModelCalled <=> all_content # <<>>)

C26_FetchFailureSkippedGivenModel ==
    /\ AllSelectedFetched
    /\ CorpusIsFetchedTexts
    /\ pc = "extract" => all_content # <<>>
    /\ pc = "done" =>
          /\ "extract" \in StagesCalled <=> all_content # <<>>
          /\ ExtractionModelCalled <=> (all_content # <<>> /\ cfg.model)
          /\ (all_content # <<>> /\ ~cfg.model) =>
                (ret = TopLevelExcept /\ data = Placeholder(cfg))

\* the first of two fetches fails, the second gives text, the model is called
C26_Witness ==
    /\ pc = "done" /\ Len(relevant_urls) = 2 /\ Len(FetchCalls) = 2
    /\ ~GaveText(FetchCalls[1]) /\ GaveText(FetchCalls[2])
    /\ Len(all_content) = 1 /\ ExtractionModelCalled

(***************************************************************************)
(* C27. The calls of a lookup come in stage order: one keyword generation, *)
(* then one search per keyword, in keyword order, then at most one         *)
(* selection, then one fetch per selected url, in the order of the         *)
(* selector's output, then at most one extraction.  A stage begins only    *)
(* when the stage before it is complete, and the model is called at most   *)
(* three times.  The calls are those of the stages' methods; a stage whose *)
(* service is not configured is entered all the same and makes no request, *)
(* so the requests that are made are a subsequence of these calls.         *)
(***************************************************************************)
Rank == [keywords |-> 1, search |-> 2, select |-> 3, fetch |-> 4, extract |-> 5]
CallsOf(stage) == SelectSeq(calls, LAMBDA c : c.stage = stage)
ModelCalls == SelectSeq(calls, LAMBDA c : c.stage \in {"keywords", "select", "extract"})

C27_StageOrder ==
    /\ \A i, j \in 1..Len(calls) :
          i < j => Rank[calls[i].stage] <= Rank[calls[j].stage]
    /\ pc \notin {"idle", "start"} => Len(CallsOf("keywords")) = 1
    /\ Len(CallsOf("select")) <= 1 /\ Len(CallsOf("extract")) <= 1
    /\ Len(SearchCalls) <= Len(keywords)
    /\ \A i \in 1..Len(SearchCalls) :
          SearchCalls[i].arg = <<keywords[i], QuerySuffix[cfg.kind]>>
    /\ (CallsOf("select") # <<>> \/ pc = "select") =>
          Len(SearchCalls) = Len(keywords)
    /\ Len(FetchCalls) <= Len(relevant_urls)
    /\ \A i \in 1..Len(FetchCalls) :
          FetchCalls[i].arg.url = relevant_urls[i]["url"]
    /\ (CallsOf("extract") # <<>> \/ pc = "extract") =>
          Len(FetchCalls) = Len(relevant_urls)
    /\ Len(ModelCalls) <= 3

\* every stage ran: two keywords, two fetches
C27_Witness ==
    /\ pc = "done" /\ cfg.model
    /\ Len(calls) = 7 /\ Len(SearchCalls) = 2 /\ Len(FetchCalls) = 2
    /\ Len(ModelCalls) = 3

(***************************************************************************)
(* C28. Every hit a search returns carries all twelve metadata sub-fields; *)
(* a sub-field whose key the provider's answer does not supply for that    *)
(* item is the empty string, never null and never missing, and a supplied  *)
(* one has the supplied value - so every sub-field of every hit can be     *)
(* read.                                                                   *)
(***************************************************************************)
MetaFields == {"description", "type", "site_name", "published_time",
               "modified_time", "author", "section", "organization_name",
               "organization_url", "person_name", "person_job_title",
               "person_affiliation"}
\* the entry of the item's pagemap a sub-field is read from
SuppliedEntry(pagemap, f) == FirstOf(pagemap[MetaSource[f][1]])
Supplies(pagemap, f) == MetaSource[f][2] \in DOMAIN SuppliedEntry(pagemap, f)

C28_MetadataComplete ==
    sres.state = "returned" =>
        /\ sres.hits # <<>> => Len(sres.hits) = Len(sreqs[1].pagemaps)
        /\ \A p \in 1..Len(sres.hits) :
              LET md == sres.hits[p].metadata
                  pagemap == sreqs[1].pagemaps[p] IN
              /\ DOMAIN md = MetaFields
              /\ Cardinality(DOMAIN md) = 12
              /\ \A f \in MetaFields :
                    IF Supplies(pagemap, f)
                      THEN md[f] = SuppliedEntry(pagemap, f)[MetaSource[f][2]]
                      ELSE md[f] = ""

\* two hits: one whose item has no pagemap, one whose item supplies a single
\* key of the metatags and of the person group
C28_Witness ==
    /\ sres.state = "returned" /\ Len(sres.hits) = 2
    /\ \E p, q \in 1..2 :
          /\ sreqs[1].pagemaps[p] = NoPagemap
          /\ sres.hits[p].metadata["description"] = ""
          /\ sres.hits[q].metadata["description"] = "v"
          /\ sres.hits[q].metadata["person_name"] = "v"
          /\ sres.hits[q].metadata["person_job_title"] = ""
          /\ sres.hits[q].metadata["organization_name"] = ""

(***************************************************************************)
(* C29. The corpus is the pages' cleaned texts joined by a blank-line      *)
(* separator and is not capped: for n pages with non-empty text its length *)
(* is the sum of the page lengths plus 2*(n-1), hence at most              *)
(* 4000*n + 2*(n-1); each text stands in it whole, in order, with the two  *)
(* separator characters between neighbours.                                *)
(***************************************************************************)
RECURSIVE TotalLen(_)
TotalLen(texts) ==
    IF texts = <<>> THEN 0 ELSE Len(texts[1]) + TotalLen(Tail(texts))
\* where the i-th text starts in the corpus, less one
OffsetOf(i) == TotalLen(SubSeq(ccontent, 1, i - 1)) + 2 * (i - 1)

C29_CorpusLength ==
    /\ \A i \in 1..Len(ccontent) :
          ccontent[i] # <<>> /\ Len(ccontent[i]) <= 4000
    /\ corpus.state = "joined" =>
          LET n == Len(ccontent) IN
          /\ n >= 1
          /\ Len(corpus.text) = TotalLen(ccontent) + 2 * (n - 1)
          /\ Len(corpus.text) <= 4000 * n + 2 * (n - 1)
          /\ \A i \in 1..n :
                LET off == OffsetOf(i) IN
                /\ SubSeq(corpus.text, off + 1, off + Len(ccontent[i])) = ccontent[i]
                /\ i > 1 => /\ corpus.text[off - 1] = Newline
                            /\ corpus.text[off] = Newline

\* two pages at the per-page limit: a corpus of 8002 characters
C29_Witness ==
    /\ corpus.state = "joined" /\ Len(ccontent) = 2
    /\ Len(ccontent[1]) = 4000 /\ Len(ccontent[2]) = 4000
    /\ Len(corpus.text) = 8002

(***************************************************************************)
(* C31. The returned record has a fixed field set: after any lookup the    *)
(* record's keys are exactly the placeholder's keys; neither the JSON      *)
(* merge nor the heuristic fallback adds a key.                            *)
(***************************************************************************)
C31_FixedFieldSet == pc = "done" => DOMAIN data = DOMAIN Placeholder(cfg)

(***************************************************************************)
(* C32. When the selector's response parses as a JSON array, a candidate   *)
(* for which the array holds no verdict is left out of the output, as if   *)
(* marked irrelevant; an empty array gives an empty output, no page is     *)
(* fetched and the lookup returns the placeholder.                         *)
(* As stated this fails when another verdict of the array makes the call   *)
(* fall back (a missing key, key_factors not a list): the unfiltered list  *)
(* is returned, the candidate without a verdict included.  Amended: it     *)
(* holds whenever the call does not fall back, and the empty array never   *)
(* makes it fall back.                                                     *)
(***************************************************************************)
ParsedArray == SelectorParsed /\ selresp.json = "array"
InOutput(u) == \E j \in 1..Len(relevant_urls) : relevant_urls[j]["url"] = u
UnverdictedExcluded ==
    \A i \in 1..Len(selin) :
        VerdictsFor(selin[i]["url"]) = {} => ~InOutput(selin[i]["url"])
EmptyArrayEndsLookup ==
    (ParsedArray /\ selresp.verdicts = <<>>) =>
        /\ ~SelectorFailed
        /\ relevant_urls = <<>> /\ fetched = <<>> /\ all_content = <<>>
        /\ pc = "done" /\ ret = "returned" /\ data = Placeholder(cfg)

C32_UnverdictedExcluded ==
    /\ ParsedArray => UnverdictedExcluded
    /\ EmptyArrayEndsLookup

C32_UnverdictedExcludedUnlessFallback ==
    /\ (ParsedArray /\ ~SelectorFailed) => UnverdictedExcluded
    /\ (ParsedArray /\ SelectorFailed) =>
          \A i \in 1..Len(selin) : InOutput(selin[i]["url"])
    /\ EmptyArrayEndsLookup

\* two candidates, a single verdict that keeps one of them
C32_Witness ==
    /\ ParsedArray /\ ~SelectorFailed
    /\ Len(selin) = 2 /\ Len(selresp.verdicts) = 1
    /\ Len(relevant_urls) = 1
    /\ \E i \in 1..2 : VerdictsFor(selin[i]["url"]) = {}

(***************************************************************************)
(* C33. Selector fail-open is atomic: whenever the selector returns the    *)
(* unfiltered list because of a failure (model exception, unparseable      *)
(* output, or a verdict lacking a required key), no input candidate has    *)
(* been modified: none carries relevance_score, relevance_reason,          *)
(* content_type, key_factors or is_relevant written during the call.       *)
(***************************************************************************)
AnnotationKeys == {"relevance_score", "relevance_reason", "content_type",
                   "key_factors", "is_relevant"}
C33_FailOpenAtomic ==
    (SelectorCalled /\ SelectorFailed) =>
        /\ all_urls = selin /\ relevant_urls = selin
        /\ \A i \in 1..Len(all_urls) : DOMAIN all_urls[i] \cap AnnotationKeys = {}

(***************************************************************************)
(* C34. Keyword generation always yields a non-empty keyword list: it is   *)
(* exactly [entity name] when no model is configured or the call raises,   *)
(* and every model response, an empty or all-blank one included, gives at  *)
(* least one keyword; so every lookup issues at least one search.          *)
(***************************************************************************)
KeywordsGenerated == pc \notin {"idle", "start"}
C34_KeywordsNonEmpty ==
    KeywordsGenerated =>
        /\ keywords # <<>>
        /\ (~cfg.model \/ "keywords" \in raised) => keywords = <<cfg.name>>
        /\ pc \notin {"search"} => SearchCalls # <<>>

(***************************************************************************)
(* C35. With no model configured a lookup still completes without         *)
(* raising: its one keyword is the bare entity name, the selector fails    *)
(* open and keeps every candidate, every candidate's url is fetched, and   *)
(* the failing extraction call leaves the returned record equal to the     *)
(* placeholder.                                                            *)
(***************************************************************************)
UrlsOf(cands) == [i \in 1..Len(cands) |-> cands[i]["url"]]

C35_NoModelLookup ==
    ~cfg.model =>
        /\ ret # "raised"
        /\ KeywordsGenerated =>
              /\ keywords = <<cfg.name>>
              /\ Len(SearchCalls) <= 1
              /\ \A i \in 1..Len(SearchCalls) :
                    SearchCalls[i].arg = <<cfg.name, QuerySuffix[cfg.kind]>>
        /\ SelectorCalled =>
              /\ SelectorFailed
              /\ selin = OwnPool.all_urls
              /\ relevant_urls = selin /\ all_urls = selin
        /\ (SelectorCalled /\ pc \in {"extract", "done"}) =>
              fetched = UrlsOf(selin)
        /\ pc = "done" =>
              /\ ret = "returned" /\ data = Placeholder(cfg)
              /\ SearchCalls # <<>>
              /\ all_content # <<>> => (exresp = Raise /\ "extract" \in raised)

\* two candidates, both fetched, text found, the extraction call fails
C35_Witness ==
    /\ ~cfg.model /\ pc = "done"
    /\ Len(selin) = 2 /\ Len(fetched) = 2 /\ all_content # <<>>
    /\ exresp = Raise /\ data = Placeholder(cfg)

(***************************************************************************)
(* C36. The outcome of the validation-disabled fallback request is handled *)
(* by the rules of a validating request: a 200 is returned, a 429/502 or a *)
(* network exception is retried with backoff within the 3-attempt limit,   *)
(* and any other status ends the fetch at once with failure.               *)
(***************************************************************************)
IsLast(i) == i = Len(ftrace)
FollowedByBackoff(i) ==
    /\ i < Len(ftrace)
    /\ IsSleep(ftrace[i + 1])
    /\ ftrace[i + 1].secs = Backoff(ftrace[i].attempt)

C36_FallbackSameRules ==
    \A i \in 1..Len(ftrace) :
        LET e == ftrace[i] IN
        IsFallback(e) =>
            /\ (e.exc = "none" /\ e.status = 200) =>
                  (IsLast(i) /\ fpc = "done" /\ fret = "R200")
            /\ IsTransient(e) => FollowedByBackoff(i)
            /\ (e.exc = "RequestException" /\ RetriesLeft(e.attempt)) =>
                  FollowedByBackoff(i)
            /\ (e.exc = "none" /\ e.status \notin {200, 429, 502}) =>
                  (IsLast(i) /\ fpc = "done" /\ fret = "None")

(***************************************************************************)
(* C37. Within one fetch call attempt k+1 (k = 1, 2) is never started      *)
(* unless a backoff delay of 2 * 2^(k-1) seconds was taken after attempt   *)
(* k: no two attempts of the retry loop run back to back, whatever made    *)
(* attempt k fail (429/502, network exception, or TLS failure followed by  *)
(* an unsuccessful validation-disabled request).                           *)
(***************************************************************************)
C37_DelayBetweenAttempts ==
    \A i \in 1..Len(ftrace) :
        (IsValidating(ftrace[i]) /\ ftrace[i].attempt >= 1) =>
            /\ i > 1
            /\ IsSleep(ftrace[i - 1])
            /\ ftrace[i - 1].secs = 2 * 2 ^ (ftrace[i].attempt - 1)

(***************************************************************************)
(* C38. When every HTTP request returns or raises, a fetch call always     *)
(* terminates: it runs at most 3 iterations of the retry loop, takes       *)
(* delays only from {2s, 4s, 8s}, at most 14 seconds in all, and then      *)
(* returns.                                                                *)
(***************************************************************************)
RECURSIVE SumOf(_)
SumOf(ns) == IF ns = <<>> THEN 0 ELSE ns[1] + SumOf(Tail(ns))
Iterations == {ftrace[i].attempt : i \in 1..Len(ftrace)}
FetchBounded ==
    /\ attempt <= 3 /\ Iterations \subseteq {0, 1, 2}
    /\ Len(Validating) <= 3 /\ Len(Requests) <= 6
    /\ \A i \in 1..Len(Delays) : Delays[i] \in {2, 4, 8}
    /\ SumOf(Delays) <= 14
    /\ fret # "raised"
FetchReturned == fpc = "done" /\ fret \in {"R200", "None"}

C38_FetchTerminates == []FetchBounded /\ <>[]FetchReturned

\* three 429/502 answers: every delay taken, 14 seconds, then None
C38_Witness ==
    /\ FetchReturned /\ fret = "None"
    /\ Delays = <<2, 4, 8>> /\ SumOf(Delays) = 14
    /\ Len(Validating) = 3

=============================================================================
